---- MODULE Spec2Model ----
(***************************************************************************)
(* Subscription entitlement, checkout initiation and payment-webhook       *)
(* reconciliation of src/app.py, as a state machine over the users and     *)
(* orders tables, the payment processor's objects and the requests in      *)
(* flight.                                                                 *)
(***************************************************************************)
EXTENDS Integers, Sequences, FiniteSets, TLC

\* ------------------------------------------------------------------ bounds
MaxUsers == 2        \* rows of the users table (the seeded admin included)
MaxOrders == 1       \* rows of the orders table
MaxSubs == 2         \* subscription objects known to the processor
MaxCustomers == 2    \* customer objects the processor will create
MaxSessionRefs == 2  \* checkout-session references events may carry
MaxConc == 2         \* requests of one kind handled at the same time

\* --------------------------------------------------------- configuration
\* SQL NULL / Python None of a text column, and of a reference column
Null == "null"
NoRef == 0

\* the recognised plan tiers and the sentinel the webhook may store
PlanTiers == {"none", "basic", "premium", "ultimate"}
PlanIdentifiers == PlanTiers \cup {"unknown", "", "gold", "Premium"}

\* PLAN_HIERARCHY = {"none": 0, "basic": 1, "premium": 2, "ultimate": 3}
PLAN_HIERARCHY == [p \in PlanTiers |->
                     CASE p = "none" -> 0
                       [] p = "basic" -> 1
                       [] p = "premium" -> 2
                       [] p = "ultimate" -> 3]

\* dict.get(key, default)
DictGet(d, k, default) == IF k \in DOMAIN d THEN d[k] ELSE default

\* the default rank of an unrecognised required plan
RequiredDefault == 99

\* variants of user_has_access with a slip in the comparison, in the default
user_has_access_strict(user_plan, required_plan) ==
    LET user_level == DictGet(PLAN_HIERARCHY, user_plan, 0)
        required_level == DictGet(PLAN_HIERARCHY, required_plan, RequiredDefault)
    IN  user_level > required_level

user_has_access_lax(user_plan, required_plan) ==
    LET user_level == DictGet(PLAN_HIERARCHY, user_plan, 0)
        required_level == DictGet(PLAN_HIERARCHY, required_plan, 0)
    IN  user_level >= required_level

user_has_access(user_plan, required_plan) ==
    LET user_level == DictGet(PLAN_HIERARCHY, user_plan, 0)
        required_level == DictGet(PLAN_HIERARCHY, required_plan, RequiredDefault)
    IN  user_level >= required_level

\* ------------------------------------------------------------ data model
UserIds == 1..MaxUsers
OrderIds == 1..MaxOrders
Subs == 1..MaxSubs
SessionRefs == 1..MaxSessionRefs
ConcSlots == 1..MaxConc

Usernames == {"admin", "bob"}
Emails == {"admin@slogantech.dev", "bob@x.dev"}
FullNames == {"Admin User"}
OrderStatuses == {"pending", "completed", "failed"}

\* STRIPE_PRICE_ID_BASIC / _PREMIUM / _ULTIMATE as read from the environment:
\* pairwise distinct identifiers, or the defaults shipped in the source
DefaultPriceId == "price_1PG..."
PriceConfigs ==
    { [basic |-> "price_b", premium |-> "price_p", ultimate |-> "price_u"],
      [basic |-> DefaultPriceId, premium |-> DefaultPriceId, ultimate |-> DefaultPriceId] }

\* the processor's side: the price of the first item of each subscription
PriceList == <<"price_p", DefaultPriceId, "price_b", "price_x", "price_u">>
SubPrice(s) == PriceList[((s - 1) % Len(PriceList)) + 1]

\* line items of a cart, each named by what the processor says of its price
PriceKinds == {"recurring", "one_time", "invalid"}
Carts == { <<>>, <<"recurring">>, <<"one_time">>, <<"one_time", "recurring">>, <<"invalid">> }

\* a users table whose subscription_plan defaults to the lowest paid tier
NewUser_basic(username, email, full_name) ==
    [username |-> username, email |-> email, full_name |-> full_name,
     plan |-> "basic", status |-> Null, cust |-> NoRef, sub |-> NoRef]

\* the users row inserted by seed_data, and by register_user_api
NewUser(username, email, full_name) ==
    [username |-> username, email |-> email, full_name |-> full_name,
     plan |-> "none", status |-> Null, cust |-> NoRef, sub |-> NoRef]

AdminUser == NewUser("admin", "admin@slogantech.dev", "Admin User")

\* event envelopes the processor may deliver (data.object flattened)
NoEvent == [type |-> "none", mode |-> Null, user_id |-> 0, subscription |-> NoRef, id |-> 0]
CheckoutEvents ==
    [type : {"checkout.session.completed"}, mode : {"subscription"},
     user_id : UserIds, subscription : Subs, id : {1}]
    \cup
    [type : {"checkout.session.completed"}, mode : {"subscription"},
     user_id : {0}, subscription : {1}, id : {1}]
    \cup
    [type : {"checkout.session.completed"}, mode : {"payment"},
     user_id : {1}, subscription : {NoRef}, id : SessionRefs]
    \cup
    [type : {"checkout.session.completed"}, mode : {"payment"},
     user_id : {0}, subscription : {NoRef}, id : {1}]
    \cup
    [type : {"checkout.session.completed"}, mode : {"setup"},
     user_id : {1}, subscription : {NoRef}, id : {1}]
InvoiceEvents ==
    [type : {"invoice.payment_succeeded"}, mode : {Null},
     user_id : {0}, subscription : {NoRef} \cup Subs, id : {0}]
OtherEvents ==
    [type : {"customer.created"}, mode : {Null},
     user_id : {0}, subscription : {NoRef}, id : {0}]
    \cup
    [type : {"customer.subscription.deleted"}, mode : {Null},
     user_id : {1}, subscription : {1}, id : {1}]
Events == CheckoutEvents \cup InvoiceEvents \cup OtherEvents

VARIABLES
    users,      \* the users table: a sequence, row i has id i
    orders,     \* the orders table: a sequence, row i has id i
    price_cfg,  \* the configured tier price identifiers
    customers,  \* number of customer objects created with the processor
    co,         \* checkout-initiation requests in flight, per slot
    wh,         \* webhook deliveries in flight, per slot
    prev,       \* the last request completed and its response
    hist,       \* the subscription checkouts answered 200 so far, where recorded
    acc         \* the entitlement check of a course page

vars == <<users, orders, price_cfg, customers, co, wh, prev, hist, acc>>
db == <<users, orders>>

CoIdle == [pc |-> "idle", uid |-> 0, cust |-> NoRef, mode |-> Null, resp |-> 0]
WhIdle == [pc |-> "idle", ev |-> NoEvent, plan |-> Null, resp |-> 0]
\* the checkout session a request opened with the processor
NoSession == [customer |-> NoRef, mode |-> Null, user_id |-> 0]
NoPrev == [op |-> "none", ev |-> NoEvent, fault |-> "none", session |-> NoSession,
           resp |-> 0, dup |-> FALSE]
AccIdle == [pc |-> "idle", user_plan |-> Null, required_plan |-> Null, has_access |-> FALSE]

\* the ledgers a store that already holds orders may start with: row i
\* belongs to user 1 and carries a checkout-session reference
InitialOrders ==
    { [i \in 1..MaxOrders |-> [user_id |-> 1, status |-> st[i],
                               session |-> ((i - 1) % MaxSessionRefs) + 1]]
      : st \in [1..MaxOrders -> OrderStatuses] }

\* the deployment sets the three price identifiers apart
DistinctPrices == CHOOSE c \in PriceConfigs : c.basic # c.premium

\* the users table as init_db and seed_data create it, the processor
\* without objects of this application, no request in flight
InitCommon ==
    /\ users = <<AdminUser>>
    /\ customers = 0
    /\ co = [r \in ConcSlots |-> CoIdle]
    /\ wh = [w \in ConcSlots |-> WhIdle]
    /\ prev = NoPrev
    /\ price_cfg = DistinctPrices

\* the store as init_db and seed_data create it
Init ==
    /\ InitCommon
    /\ orders = <<>>
    /\ hist = [on |-> FALSE, applied |-> {}]
    /\ acc = AccIdle

\* the application starts on a store whose orders table has rows (the
\* schema is created IF NOT EXISTS and no handler inserts an order)
InitLedger ==
    /\ InitCommon
    /\ orders \in InitialOrders
    /\ hist = [on |-> FALSE, applied |-> {}]
    /\ acc = AccIdle

\* ------------------------------------------------------- shared helpers
\* A handler returns: the request, what went wrong while it was handled, and
\* its HTTP status are recorded.  dup tells that the request is a webhook
\* delivery of the event whose delivery was answered 200 just before.
Completed(op, ev, fault, session, resp) ==
    /\ prev' = [op |-> op, ev |-> ev, fault |-> fault, session |-> session, resp |-> resp,
                dup |-> /\ op = "webhook" /\ fault # "signature"
                        /\ prev.op = "webhook" /\ prev.ev = ev /\ prev.resp = 200]
    /\ hist' = IF hist.on /\ op = "webhook" /\ resp = 200 /\ ev.mode = "subscription"
               THEN [hist EXCEPT !.applied = @ \cup {ev}]
               ELSE hist

Respond(op, resp) == Completed(op, NoEvent, "none", NoSession, resp)

\* ------------------------------------------ registration, login, profile
\* POST /auth/register
register_user_api(username, email, full_name) ==
    /\ IF \E i \in 1..Len(users) : users[i].username = username \/ users[i].email = email
       THEN /\ Respond("register", 400)
            /\ UNCHANGED users
       ELSE /\ Len(users) < MaxUsers
            /\ users' = Append(users, NewUser(username, email, full_name))
            /\ Respond("register", 201)
    /\ UNCHANGED <<orders, price_cfg, customers, co, wh, acc>>

\* POST /auth/token
login_for_access_token_api(username, password_ok) ==
    /\ IF (\E i \in 1..Len(users) : users[i].username = username) /\ password_ok
       THEN Respond("login", 200)
       ELSE Respond("login", 401)
    /\ UNCHANGED <<users, orders, price_cfg, customers, co, wh, acc>>

\* UPDATE users SET full_name = ?, email = ?, ... WHERE id = ?, after the
\* check that no other account uses the e-mail address
ProfileResult(us, uid, full_name, email) ==
    IF email # us[uid].email /\ \E i \in 1..Len(us) : us[i].email = email /\ i # uid
    THEN [users |-> us, resp |-> 400]
    ELSE [users |-> [us EXCEPT ![uid].full_name = full_name, ![uid].email = email],
          resp |-> 200]

\* POST /api/user/update, for the authenticated user uid
update_user_profile(uid, full_name, email) ==
    /\ uid \in 1..Len(users)
    /\ LET res == ProfileResult(users, uid, full_name, email)
       IN  /\ users' = res.users
           /\ Respond("update", res.resp)
    /\ UNCHANGED <<orders, price_cfg, customers, co, wh, acc>>

\* --------------------------------------------------- checkout initiation
\* a mode decided by any recurring item of the cart
CheckoutMode_any_recurring(cart) ==
    IF \E i \in 1..Len(cart) : cart[i] = "recurring" THEN "subscription" ELSE "payment"

\* mode = "subscription" if first_price_info.recurring else "payment"
CheckoutMode(cart) == IF cart[1] = "recurring" THEN "subscription" ELSE "payment"

\* `if not line_items` raises, or stripe.Price.retrieve raises
PriceLookupFails(cart, processor_ok) ==
    cart = <<>> \/ cart[1] = "invalid" \/ ~processor_ok

\* an UPDATE that is never committed
PersistCustomer_uncommitted(us, uid, cust) == us

\* UPDATE users SET stripe_customer_id = ? WHERE id = ?
PersistCustomer(us, uid, cust) ==
    [i \in 1..Len(us) |-> IF i = uid THEN [us[i] EXCEPT !.cust = cust] ELSE us[i]]

\* a session opened without the owner in its metadata
OpenSession_anonymous(cust, mode, uid) == [customer |-> cust, mode |-> mode, user_id |-> 0]

\* stripe.checkout.Session.create(customer=..., mode=..., metadata={'user_id': ...})
OpenSession(cust, mode, uid) == [customer |-> cust, mode |-> mode, user_id |-> uid]

\* the calls of a checkout initiation that may raise
FaultPoints == {"none", "price", "customer", "persist", "session"}

\* The whole handler for the authenticated user uid.  Every exception, the
\* HTTPException(400) of an empty cart included, is caught by `except
\* Exception` and answered with a 500; 200 stands for the session id as JSON
\* and for the 303 redirect to session.url alike.  fault is the call that
\* raises if the handler gets to it; the result names it when it did.
CheckoutResult(us, ncust, uid, cart, fault) ==
    LET failed(us2, n, f) == [users |-> us2, customers |-> n, session |-> NoSession,
                              resp |-> 500, fault |-> f]
        opened(us2, n, cust) ==
            IF fault = "session" THEN failed(us2, n, "session")
            ELSE [users |-> us2, customers |-> n,
                  session |-> OpenSession(cust, CheckoutMode(cart), uid),
                  resp |-> 200, fault |-> "none"]
    IN  IF cart = <<>> THEN failed(us, ncust, "none")
        ELSE IF PriceLookupFails(cart, fault # "price") THEN failed(us, ncust, "price")
        ELSE IF us[uid].cust # NoRef THEN opened(us, ncust, us[uid].cust)
        ELSE IF fault = "customer" THEN failed(us, ncust, "customer")
        ELSE IF fault = "persist" THEN failed(us, ncust + 1, "persist")
        ELSE opened(PersistCustomer(us, uid, ncust + 1), ncust + 1, ncust + 1)

\* POST /api/payments/create-checkout-session, handled without interruption;
\* uid = 0 stands for a request without a valid token
create_checkout_session_api(uid, cart, fault) ==
    /\ IF uid \notin 1..Len(users)
       THEN /\ uid = 0
            /\ Respond("checkout", 401)
            /\ UNCHANGED <<users, customers>>
       ELSE LET res == CheckoutResult(users, customers, uid, cart, fault)
            IN  /\ res.customers <= MaxCustomers
                /\ users' = res.users
                /\ customers' = res.customers
                /\ Completed("checkout", NoEvent, res.fault, res.session, res.resp)
    /\ UNCHANGED <<orders, price_cfg, co, wh, acc>>

\* ------------------------------------------------------ webhook receiver
\* what may go wrong while one delivery is handled: the signature does not
\* verify, the processor's API raises, the store raises
WebhookFaults == {"none", "signature", "processor", "store"}

\* a receiver that takes every payload for authentic
construct_event_unverified(fault) == TRUE

\* stripe.Webhook.construct_event: TRUE when an event is returned, FALSE
\* when ValueError / SignatureVerificationError is raised
construct_event(fault) == fault # "signature"

\* a lookup that falls back to the lowest paid tier instead of the sentinel
plan_name_default_basic(cfg, price_id) ==
    IF price_id = cfg.ultimate THEN "ultimate"
    ELSE IF price_id = cfg.premium THEN "premium"
    ELSE "basic"

\* a lookup that falls back to the free tier instead of the sentinel
plan_name_default_none(cfg, price_id) ==
    IF price_id = cfg.ultimate THEN "ultimate"
    ELSE IF price_id = cfg.premium THEN "premium"
    ELSE IF price_id = cfg.basic THEN "basic"
    ELSE "none"

\* plan_map.get(price_id, 'unknown'); of equal keys in the dict display the
\* last one stays
plan_name(cfg, price_id) ==
    IF price_id = cfg.ultimate THEN "ultimate"
    ELSE IF price_id = cfg.premium THEN "premium"
    ELSE IF price_id = cfg.basic THEN "basic"
    ELSE "unknown"

\* a subscription_id column declared without UNIQUE
SubscriptionConflict_unconstrained(us, uid, sub) == FALSE

\* the UNIQUE constraint on users.subscription_id rejects the UPDATE
SubscriptionConflict(us, uid, sub) ==
    /\ uid \in 1..Len(us)
    /\ \E i \in 1..Len(us) : i # uid /\ us[i].sub = sub

\* a write that replaces the whole row (REPLACE INTO), resetting the columns
\* it does not name
WriteSubscription_replacing_row(us, uid, plan, sub) ==
    [i \in 1..Len(us) |->
        IF i = uid THEN [us[i] EXCEPT !.plan = plan, !.status = "active", !.sub = sub,
                                      !.cust = NoRef]
        ELSE us[i]]

\* a write that stores the status the processor reports for a new subscription
WriteSubscription_trialing(us, uid, plan, sub) ==
    [i \in 1..Len(us) |->
        IF i = uid THEN [us[i] EXCEPT !.plan = plan, !.status = "trialing", !.sub = sub]
        ELSE us[i]]

\* a write that forgets the subscription reference
WriteSubscription_no_reference(us, uid, plan, sub) ==
    [i \in 1..Len(us) |->
        IF i = uid THEN [us[i] EXCEPT !.plan = plan, !.status = "active"] ELSE us[i]]

\* a write that forgets the status column
WriteSubscription_no_status(us, uid, plan, sub) ==
    [i \in 1..Len(us) |->
        IF i = uid THEN [us[i] EXCEPT !.plan = plan, !.sub = sub] ELSE us[i]]

\* a write that is not idempotent: applied to a row that is already active
\* it clears the status instead of setting it
WriteSubscription_flipping(us, uid, plan, sub) ==
    [i \in 1..Len(us) |->
        IF i = uid
        THEN [us[i] EXCEPT !.plan = plan, !.sub = sub,
                           !.status = IF us[i].status = "active" THEN Null ELSE "active"]
        ELSE us[i]]

\* UPDATE users SET subscription_plan = ?, subscription_status = 'active',
\*                  subscription_id = ? WHERE id = ?
WriteSubscription(us, uid, plan, sub) ==
    [i \in 1..Len(us) |->
        IF i = uid THEN [us[i] EXCEPT !.plan = plan, !.status = "active", !.sub = sub]
        ELSE us[i]]

\* a write whose failure comes after the row was committed
SubscriptionWrite_partial(us, uid, plan, sub, fault) ==
    IF SubscriptionConflict(us, uid, sub)
    THEN [users |-> us, returned |-> FALSE, fault |-> "none"]
    ELSE [users |-> WriteSubscription(us, uid, plan, sub), returned |-> fault # "store",
          fault |-> IF fault = "store" THEN "store" ELSE "none"]

\* the UPDATE above with its commit: the table left behind, whether the
\* statement went through, and the fault that struck
SubscriptionWrite(us, uid, plan, sub, fault) ==
    IF fault = "store"
    THEN [users |-> us, returned |-> FALSE, fault |-> "store"]
    ELSE IF SubscriptionConflict(us, uid, sub)
    THEN [users |-> us, returned |-> FALSE, fault |-> "none"]
    ELSE [users |-> WriteSubscription(us, uid, plan, sub), returned |-> TRUE,
          fault |-> "none"]

\* an update that does not leave a completed order alone: it marks it failed
CompleteOrders_cycling(os, session_id) ==
    [i \in 1..Len(os) |->
        IF os[i].session = session_id
        THEN [os[i] EXCEPT !.status = IF os[i].status = "completed" THEN "failed"
                                        ELSE "completed"]
        ELSE os[i]]

\* UPDATE orders SET status = 'completed' WHERE stripe_session_id = ?
CompleteOrders(os, session_id) ==
    [i \in 1..Len(os) |->
        IF os[i].session = session_id THEN [os[i] EXCEPT !.status = "completed"]
        ELSE os[i]]

\* a handler that does not look for the user id before it acts
handle_checkout_session_completed_unguarded(us, os, cfg, session, fault) ==
    LET untouched(r, f) == [users |-> us, orders |-> os, returned |-> r, fault |-> f]
    IN  IF session.mode = "subscription"
        THEN IF fault = "processor" THEN untouched(FALSE, "processor")
             ELSE LET w == SubscriptionWrite(us, session.user_id,
                               plan_name(cfg, SubPrice(session.subscription)),
                               session.subscription, fault)
                  IN  [users |-> w.users, orders |-> os, returned |-> w.returned,
                       fault |-> w.fault]
        ELSE IF session.mode = "payment"
        THEN IF fault = "store" THEN untouched(FALSE, "store")
             ELSE [users |-> us, orders |-> CompleteOrders(os, session.id),
                   returned |-> TRUE, fault |-> "none"]
        ELSE untouched(TRUE, "none")

\* handle_checkout_session_completed: the tables left behind, whether the
\* handler returned (TRUE) or raised (FALSE), and the fault that struck
handle_checkout_session_completed(us, os, cfg, session, fault) ==
    LET untouched(r, f) == [users |-> us, orders |-> os, returned |-> r, fault |-> f]
    IN  IF session.user_id = 0 THEN untouched(TRUE, "none")
        ELSE IF session.mode = "subscription"
        THEN IF fault = "processor" THEN untouched(FALSE, "processor")
             ELSE LET w == SubscriptionWrite(us, session.user_id,
                               plan_name(cfg, SubPrice(session.subscription)),
                               session.subscription, fault)
                  IN  [users |-> w.users, orders |-> os, returned |-> w.returned,
                       fault |-> w.fault]
        ELSE IF session.mode = "payment"
        THEN IF fault = "store" THEN untouched(FALSE, "store")
             ELSE [users |-> us, orders |-> CompleteOrders(os, session.id),
                   returned |-> TRUE, fault |-> "none"]
        ELSE untouched(TRUE, "none")

\* an invoice handler that also settles the orders of the first session
handle_invoice_paid_settling(us, os, invoice, fault) ==
    [users |-> us, orders |-> CompleteOrders(os, 1), returned |-> TRUE, fault |-> "none"]

\* handle_invoice_paid: the UPDATE is executed, then .commit() is called on
\* the cursor that execute() returned, which raises AttributeError; the
\* connection's context manager rolls the UPDATE back
handle_invoice_paid(us, os, invoice, fault) ==
    IF invoice.subscription = NoRef
    THEN [users |-> us, orders |-> os, returned |-> TRUE, fault |-> "none"]
    ELSE IF fault = "store"
    THEN [users |-> us, orders |-> os, returned |-> FALSE, fault |-> "store"]
    ELSE [users |-> us, orders |-> os, returned |-> FALSE, fault |-> "none"]

\* an endpoint that refuses the event types it has no handler for
WebhookResult_rejecting_unhandled(us, os, cfg, e, fault) ==
    LET answer(h) == [users |-> h.users, orders |-> h.orders, fault |-> h.fault,
                      resp |-> IF h.returned THEN 200 ELSE 500]
    IN  IF ~construct_event(fault)
        THEN [users |-> us, orders |-> os, fault |-> "signature", resp |-> 400]
        ELSE IF e.type = "checkout.session.completed"
        THEN answer(handle_checkout_session_completed(us, os, cfg, e, fault))
        ELSE IF e.type = "invoice.payment_succeeded"
        THEN answer(handle_invoice_paid(us, os, e, fault))
        ELSE [users |-> us, orders |-> os, fault |-> "none", resp |-> 400]

\* the endpoint: verification, dispatch on the event type, response
WebhookResult(us, os, cfg, e, fault) ==
    LET answer(h) == [users |-> h.users, orders |-> h.orders, fault |-> h.fault,
                      resp |-> IF h.returned THEN 200 ELSE 500]
    IN  IF ~construct_event(fault)
        THEN [users |-> us, orders |-> os, fault |-> "signature", resp |-> 400]
        ELSE IF e.type = "checkout.session.completed"
        THEN answer(handle_checkout_session_completed(us, os, cfg, e, fault))
        ELSE IF e.type = "invoice.payment_succeeded"
        THEN answer(handle_invoice_paid(us, os, e, fault))
        ELSE [users |-> us, orders |-> os, fault |-> "none", resp |-> 200]

\* POST /api/payments/stripe-webhook, handled without interruption; a bad
\* signature is a fact about the request and is recorded as such
stripe_webhook_api(e, fault) ==
    /\ LET res == WebhookResult(users, orders, price_cfg, e, fault)
       IN  /\ users' = res.users
           /\ orders' = res.orders
           /\ Completed("webhook", e, IF fault = "signature" THEN fault ELSE res.fault,
                        NoSession, res.resp)
    /\ UNCHANGED <<price_cfg, customers, co, wh, acc>>

\* ------------------------------------------- requests handled in steps
\* A request in flight holds a slot; each step is one access to the store
\* or to the processor, and steps of different requests interleave.  A slot
\* that reached "done" keeps the response until the next request takes it.
Free(slot) == slot.pc \in {"idle", "done"}

CoDone(r, resp) ==
    co' = [co EXCEPT ![r] = [pc |-> "done", uid |-> co[r].uid, cust |-> NoRef,
                             mode |-> Null, resp |-> resp]]

\* get_current_user: the users row is read when the request is authenticated
get_current_user(r, uid) ==
    /\ Free(co[r])
    /\ IF uid \in 1..Len(users)
       THEN co' = [co EXCEPT ![r] = [pc |-> "body", uid |-> uid,
                                    cust |-> users[uid].cust, mode |-> Null, resp |-> 0]]
       ELSE /\ uid = 0
            /\ co' = [co EXCEPT ![r] = [pc |-> "done", uid |-> 0, cust |-> NoRef,
                                        mode |-> Null, resp |-> 401]]
    /\ UNCHANGED <<users, orders, price_cfg, customers, wh, prev, hist, acc>>

\* the body is read and the first price is looked up with the processor
CheckoutPrice(r, cart, processor_ok) ==
    /\ co[r].pc = "body"
    /\ IF PriceLookupFails(cart, processor_ok)
       THEN CoDone(r, 500)
       ELSE co' = [co EXCEPT ![r].mode = CheckoutMode(cart),
                             ![r].pc = IF co[r].cust = NoRef THEN "customer" ELSE "session"]
    /\ UNCHANGED <<users, orders, price_cfg, customers, wh, prev, hist, acc>>

\* stripe.Customer.create
CheckoutCustomer(r, processor_ok) ==
    /\ co[r].pc = "customer"
    /\ IF ~processor_ok
       THEN /\ CoDone(r, 500)
            /\ UNCHANGED customers
       ELSE /\ customers < MaxCustomers
            /\ customers' = customers + 1
            /\ co' = [co EXCEPT ![r].cust = customers + 1, ![r].pc = "persist"]
    /\ UNCHANGED <<users, orders, price_cfg, wh, prev, hist, acc>>

\* UPDATE users SET stripe_customer_id = ? WHERE id = ?, and the commit
CheckoutPersist(r, store_ok) ==
    /\ co[r].pc = "persist"
    /\ IF ~store_ok
       THEN /\ CoDone(r, 500)
            /\ UNCHANGED users
       ELSE /\ users' = PersistCustomer(users, co[r].uid, co[r].cust)
            /\ co' = [co EXCEPT ![r].pc = "session"]
    /\ UNCHANGED <<orders, price_cfg, customers, wh, prev, hist, acc>>

\* stripe.checkout.Session.create and the response; the slot keeps the
\* customer and the mode the session was opened with
CheckoutSession(r, processor_ok) ==
    /\ co[r].pc = "session"
    /\ IF ~processor_ok
       THEN CoDone(r, 500)
       ELSE co' = [co EXCEPT ![r].pc = "done", ![r].resp = 200]
    /\ UNCHANGED <<users, orders, price_cfg, customers, wh, prev, hist, acc>>

\* the events delivered while other requests are in flight
ConcEvents ==
    { e \in Events : \/ e.type = "invoice.payment_succeeded" /\ e.subscription = 1
                     \/ e.mode = "subscription" /\ e.user_id = 1 }

\* the delivery arrives: verification, dispatch, and the handler up to the
\* subscription lookup with the processor; every other branch runs to its
\* response at once
WebhookReceive(w, e, fault) ==
    /\ Free(wh[w])
    /\ IF /\ construct_event(fault)
          /\ e.type = "checkout.session.completed"
          /\ e.user_id # 0
          /\ e.mode = "subscription"
          /\ fault # "processor"
       THEN /\ wh' = [wh EXCEPT ![w] =
                        [pc |-> "write", ev |-> e, resp |-> 0,
                         plan |-> plan_name(price_cfg, SubPrice(e.subscription))]]
            /\ UNCHANGED <<users, orders>>
       ELSE LET res == WebhookResult(users, orders, price_cfg, e, fault)
            IN  /\ users' = res.users
                /\ orders' = res.orders
                /\ wh' = [wh EXCEPT ![w] = [pc |-> "done", ev |-> e, plan |-> Null,
                                            resp |-> res.resp]]
    /\ UNCHANGED <<price_cfg, customers, co, prev, hist, acc>>

\* the UPDATE of the users row, the commit and the response
WebhookWrite(w, fault) ==
    /\ wh[w].pc = "write"
    /\ LET e == wh[w].ev
           res == SubscriptionWrite(users, e.user_id, wh[w].plan, e.subscription, fault)
       IN  /\ users' = res.users
           /\ wh' = [wh EXCEPT ![w].pc = "done", ![w].plan = Null,
                               ![w].resp = IF res.returned THEN 200 ELSE 500]
    /\ UNCHANGED <<orders, price_cfg, customers, co, prev, hist, acc>>

\* a profile update while other requests are in flight
ProfileUpdate(uid, full_name, email) ==
    /\ uid \in 1..Len(users)
    /\ users' = ProfileResult(users, uid, full_name, email).users
    /\ UNCHANGED <<orders, price_cfg, customers, co, wh, prev, hist, acc>>

\* ------------------------------------------------------ entitlement check
\* course_detail_page: has_access = user_has_access(plan, required_plan)
course_detail_page ==
    /\ acc.pc = "request"
    /\ acc' = [acc EXCEPT !.pc = "rendered",
                          !.has_access = user_has_access(acc.user_plan, acc.required_plan)]
    /\ UNCHANGED <<users, orders, price_cfg, customers, co, wh, prev, hist>>

\* ------------------------------------------------------- specifications
\* requests handled one after the other
Next ==
    \/ \E u \in Usernames, e \in Emails, n \in FullNames : register_user_api(u, e, n)
    \/ \E u \in Usernames, ok \in BOOLEAN : login_for_access_token_api(u, ok)
    \/ \E uid \in UserIds, n \in FullNames, e \in Emails : update_user_profile(uid, n, e)
    \/ \E uid \in 0..MaxUsers, cart \in Carts, fault \in FaultPoints :
          create_checkout_session_api(uid, cart, fault)
    \/ \E e \in Events, fault \in WebhookFaults : stripe_webhook_api(e, fault)

Spec == Init /\ [][Next]_vars

\* registrations and webhook deliveries, with the completed subscription
\* checkouts that were answered 200 recorded
InitDeliveries ==
    /\ InitCommon
    /\ orders = <<>>
    /\ hist = [on |-> TRUE, applied |-> {}]
    /\ acc = AccIdle

NextDeliveries ==
    \/ \E u \in Usernames, e \in Emails, n \in FullNames : register_user_api(u, e, n)
    \/ \E e \in Events, fault \in WebhookFaults : stripe_webhook_api(e, fault)

SpecDeliveries == InitDeliveries /\ [][NextDeliveries]_vars

\* registrations and webhook deliveries under each configuration of the
\* tier price identifiers: the environment's, or the defaults of the source
InitConfigs ==
    /\ users = <<AdminUser>>
    /\ customers = 0
    /\ co = [r \in ConcSlots |-> CoIdle]
    /\ wh = [w \in ConcSlots |-> WhIdle]
    /\ prev = NoPrev
    /\ price_cfg \in PriceConfigs
    /\ orders = <<>>
    /\ hist = [on |-> FALSE, applied |-> {}]
    /\ acc = AccIdle

SpecConfigs == InitConfigs /\ [][NextDeliveries]_vars

\* registrations and webhook deliveries against a store that holds orders
SpecLedger == InitLedger /\ [][NextDeliveries]_vars

\* every request, one after the other, against a store that holds orders
SpecStore == InitLedger /\ [][Next]_vars

\* requests of one user handled concurrently
NextConc ==
    \/ \E r \in ConcSlots, uid \in 0..1 : get_current_user(r, uid)
    \/ \E r \in ConcSlots, cart \in Carts, ok \in BOOLEAN : CheckoutPrice(r, cart, ok)
    \/ \E r \in ConcSlots, ok \in BOOLEAN : CheckoutCustomer(r, ok)
    \/ \E r \in ConcSlots, ok \in BOOLEAN : CheckoutPersist(r, ok)
    \/ \E r \in ConcSlots, ok \in BOOLEAN : CheckoutSession(r, ok)
    \/ \E w \in ConcSlots, e \in ConcEvents, fault \in WebhookFaults : WebhookReceive(w, e, fault)
    \/ \E w \in ConcSlots, fault \in {"none", "store"} : WebhookWrite(w, fault)
    \/ \E uid \in UserIds, n \in FullNames, e \in Emails : ProfileUpdate(uid, n, e)

SpecConc == Init /\ [][NextConc]_vars

\* the entitlement function applied to a pair of plan identifiers
InitAccess ==
    /\ InitCommon
    /\ orders = <<>>
    /\ hist = [on |-> FALSE, applied |-> {}]
    /\ acc \in [pc : {"request"}, user_plan : PlanIdentifiers,
                required_plan : PlanIdentifiers, has_access : {FALSE}]

NextAccess == course_detail_page

SpecAccess == InitAccess /\ [][NextAccess]_vars

\* =================================================================== claims
\* the rank the specification gives each tier: none < basic < premium < ultimate
TierRank(p) == CASE p = "none" -> 0 [] p = "basic" -> 1 [] p = "premium" -> 2 [] p = "ultimate" -> 3

Rendered == acc.pc = "rendered"

\* C1: for every pair (u, r) of the four plan tiers, user_has_access(u, r) is
\* true exactly when rank(u) >= rank(r).
C1_AccessIffRank ==
    (Rendered /\ acc.user_plan \in PlanTiers /\ acc.required_plan \in PlanTiers)
        => (acc.has_access <=> TierRank(acc.user_plan) >= TierRank(acc.required_plan))

C1_Witness ==
    /\ Rendered
    /\ acc.user_plan = "basic" /\ acc.required_plan = "basic"
    /\ acc.has_access

\* C2: an unrecognised required plan never grants access, whatever the user
\* plan; an unrecognised user plan (the sentinel "unknown" included) gets the
\* result that user plan "none" gets against the same required plan.
C2_UnknownMostRestrictive ==
    Rendered =>
        /\ acc.required_plan \notin PlanTiers => ~acc.has_access
        /\ acc.user_plan \notin PlanTiers =>
              (acc.has_access <=> (acc.required_plan = "none"))

C2_Witness ==
    /\ Rendered
    /\ acc.user_plan = "ultimate" /\ acc.required_plan = "gold"
    /\ ~acc.has_access

\* a step of the sequential specifications is one request, described by prev'
WebhookDelivered == prev'.op = "webhook"

\* C3: a delivery whose signature fails verification is answered with a 4xx
\* and changes no User and no Order record, whatever the payload.
C3_BadSignatureRejected ==
    [][ (WebhookDelivered /\ prev'.fault = "signature")
          => (prev'.resp \in 400..499 /\ users' = users /\ orders' = orders) ]_vars

\* a badly signed completed-checkout event for an existing user was rejected
C3_Witness ==
    /\ prev.op = "webhook" /\ prev.fault = "signature" /\ prev.resp = 400
    /\ prev.ev.type = "checkout.session.completed" /\ prev.ev.mode = "subscription"
    /\ prev.ev.user_id \in 1..Len(users)
    /\ users[prev.ev.user_id].sub # prev.ev.subscription

\* a completed-checkout event of a recurring purchase
Recurring(e) == e.type = "checkout.session.completed" /\ e.mode = "subscription"
\* a completed-checkout event of a one-time purchase, with its metadata
OneTime(e) == e.type = "checkout.session.completed" /\ e.mode = "payment" /\ e.user_id # 0
InvoicePaid(e) == e.type = "invoice.payment_succeeded"

\* C4: the same completed-checkout (recurring) event delivered twice in
\* succession leaves every User record as the first delivery left it.
C4_RedeliveryIdempotent ==
    [][ (WebhookDelivered /\ prev'.dup /\ Recurring(prev'.ev)) => users' = users ]_vars

\* the second of two successive deliveries was applied to an existing user
C4_Witness ==
    /\ prev.op = "webhook" /\ prev.dup /\ prev.resp = 200 /\ Recurring(prev.ev)
    /\ prev.ev.user_id \in 1..Len(users)
    /\ users[prev.ev.user_id].sub = prev.ev.subscription
    /\ users[prev.ev.user_id].status = "active"

\* C5: re-delivering an event that was applied before, at any later point,
\* ends in the User and Order state of the history without the re-delivery:
\* the re-delivery changes nothing.
C5_LateRedeliveryNoOp ==
    [][ (WebhookDelivered /\ prev'.fault = "none" /\ prev'.ev \in hist.applied)
          => (users' = users /\ orders' = orders) ]_vars

\* the orders an event's checkout-session reference names
Matching(e) == { i \in 1..Len(orders) : orders[i].session = e.id }

\* C6: a completed-checkout (one-time) event delivered when the matching
\* Order is already completed changes no record and is answered 200.
C6_CompletedOrderUntouched ==
    [][ (/\ WebhookDelivered /\ prev'.fault = "none" /\ OneTime(prev'.ev)
         /\ Matching(prev'.ev) # {}
         /\ \A i \in Matching(prev'.ev) : orders[i].status = "completed")
          => (orders' = orders /\ users' = users /\ prev'.resp = 200) ]_vars

\* the event was delivered twice in succession and its order is completed
C6_Witness ==
    /\ prev.op = "webhook" /\ prev.dup /\ prev.resp = 200 /\ OneTime(prev.ev)
    /\ \E i \in Matching(prev.ev) : orders[i].status = "completed"

C8_OrphanInvoiceSuccess ==
    [][ (/\ WebhookDelivered /\ prev'.fault = "none" /\ InvoicePaid(prev'.ev)
         /\ prev'.ev.subscription # NoRef
         /\ \A i \in 1..Len(users) : users[i].sub # prev'.ev.subscription)
          => (prev'.resp = 200 /\ users' = users /\ orders' = orders) ]_vars

\* C9: two checkout initiations of one user that both opened a session
\* opened it with the same customer, the one stored on the user.
C9_OneCustomerPerUser ==
    \A r1, r2 \in ConcSlots :
        (/\ co[r1].pc = "done" /\ co[r1].resp = 200
         /\ co[r2].pc = "done" /\ co[r2].resp = 200
         /\ co[r1].uid = co[r2].uid)
          => (co[r1].cust = co[r2].cust /\ users[co[r1].uid].cust = co[r1].cust)

\* C10: a stored customer reference never changes once it is set.
C10_CustomerSetOnce ==
    [][ \A i \in 1..Len(users) : users[i].cust # NoRef => users'[i].cust = users[i].cust ]_vars

\* the users rows other than row uid
Others(us, uid) == { i \in 1..Len(us) : i # uid }

C12_ActiveHasPlan ==
    \A i \in 1..Len(users) : users[i].status = "active" => users[i].plan # "none"

\* a user was made active by a subscription whose price matches no tier
C12_Witness ==
    \E i \in 1..Len(users) :
        /\ users[i].status = "active" /\ users[i].sub # NoRef
        /\ plan_name(price_cfg, SubPrice(users[i].sub)) = "unknown"

\* C13: in every reachable state a non-null subscription reference is stored
\* on one User only, whatever completed-checkout deliveries were made.
C13_SubscriptionOwnedOnce ==
    \A i, j \in 1..Len(users) :
        (i # j /\ users[i].sub # NoRef) => users[i].sub # users[j].sub

\* a completed-checkout event named a subscription that another user holds
C13_Witness ==
    /\ prev.op = "webhook" /\ Recurring(prev.ev) /\ prev.fault = "none"
    /\ prev.ev.user_id \in 1..Len(users)
    /\ \E i \in Others(users, prev.ev.user_id) : users[i].sub = prev.ev.subscription

\* C14: an authentic event is answered 200 whatever its kind, metadata, mode
\* or the outcome of resolving it; only a delivery whose signature fails
\* verification gets another answer.
C14_AuthenticAlwaysSuccess ==
    [][ WebhookDelivered => (prev'.resp = 200 <=> prev'.fault # "signature") ]_vars

\* an authentic event of a kind the endpoint has no handler for
Unrecognized(e) ==
    e.type \notin {"none", "checkout.session.completed", "invoice.payment_succeeded"}

\* C15: an authentic event that is neither completed-checkout nor
\* invoice-paid is answered with success and changes no User and no Order.
C15_UnrecognizedAcknowledged ==
    [][ (WebhookDelivered /\ prev'.fault # "signature" /\ Unrecognized(prev'.ev))
          => (prev'.resp = 200 /\ users' = users /\ orders' = orders) ]_vars

\* an unhandled event naming an existing user and subscription was
\* acknowledged while a pending order was in the store
C15_Witness ==
    /\ prev.op = "webhook" /\ prev.fault # "signature" /\ prev.resp = 200
    /\ prev.ev.type = "customer.subscription.deleted"
    /\ \E i \in 1..Len(users) : users[i].sub = prev.ev.subscription
    /\ \E i \in 1..Len(orders) : orders[i].status = "pending"

\* a completed-checkout event whose metadata carries no user id
NoMetadata(e) == e.type = "checkout.session.completed" /\ e.user_id = 0

\* C16: a completed-checkout event without a user id in its metadata is
\* answered with success and changes no User and no Order; no failure of the
\* processor or the store can affect it, since neither is called.
C16_NoMetadataAcknowledged ==
    [][ (WebhookDelivered /\ prev'.fault # "signature" /\ NoMetadata(prev'.ev))
          => (/\ prev'.resp = 200 /\ prev'.fault = "none"
              /\ users' = users /\ orders' = orders) ]_vars

\* such an event of a one-time purchase was acknowledged while the order of
\* its checkout session was pending
C16_Witness ==
    /\ prev.op = "webhook" /\ prev.resp = 200 /\ NoMetadata(prev.ev)
    /\ prev.ev.mode = "payment"
    /\ \E i \in Matching(prev.ev) : orders[i].status = "pending"

\* the subscription's price is none of the configured tier prices
UnmatchedPrice(e) ==
    SubPrice(e.subscription) \notin {price_cfg.basic, price_cfg.premium, price_cfg.ultimate}

\* C17: a completed-checkout (recurring) event whose subscription price
\* matches no configured tier does not fail: the user of its metadata gets
\* plan 'unknown', status active and the subscription reference, no other
\* user's record changes, and the answer is success.
C17_UnknownPriceSentinel ==
    [][ (/\ WebhookDelivered /\ prev'.fault = "none" /\ Recurring(prev'.ev)
         /\ prev'.ev.user_id \in 1..Len(users)
         /\ UnmatchedPrice(prev'.ev)
         /\ \A i \in Others(users, prev'.ev.user_id) : users[i].sub # prev'.ev.subscription)
          => (/\ prev'.resp = 200
              /\ Len(users') = Len(users)
              /\ users'[prev'.ev.user_id] =
                    [users[prev'.ev.user_id] EXCEPT !.plan = "unknown", !.status = "active",
                                                    !.sub = prev'.ev.subscription]
              /\ \A i \in Others(users, prev'.ev.user_id) : users'[i] = users[i]
              /\ orders' = orders) ]_vars

\* the sentinel was stored for one of two users
C17_Witness ==
    /\ prev.op = "webhook" /\ prev.resp = 200 /\ prev.fault = "none" /\ Recurring(prev.ev)
    /\ UnmatchedPrice(prev.ev)
    /\ Len(users) = 2 /\ prev.ev.user_id \in 1..Len(users)
    /\ users[prev.ev.user_id].plan = "unknown"
    /\ users[prev.ev.user_id].sub = prev.ev.subscription

\* a checkout initiation of an authenticated user with no line items
EmptyCartCheckout ==
    \E uid \in UserIds, fault \in FaultPoints : create_checkout_session_api(uid, <<>>, fault)

\* C18: a checkout initiation with an empty or missing line-item list is
\* rejected with a 4xx before the processor is called (no customer, no
\* session) and changes no stored state.
C18_EmptyCartClientError ==
    [][ EmptyCartCheckout
          => (/\ prev'.resp \in 400..499
              /\ prev'.session = NoSession /\ customers' = customers
              /\ users' = users /\ orders' = orders) ]_vars

\* the processor calls of a checkout initiation
ProcessorCalls == {"price", "customer", "session"}

\* C19: when a processor call of a checkout initiation fails (price lookup,
\* customer creation, session creation) the request ends in a failure
\* response and changes no User and no Order, except that the customer
\* reference the same request persisted before the failure stays stored.
C19_ProcessorFailureNoPartialState ==
    [][ (prev'.op = "checkout" /\ prev'.fault \in ProcessorCalls)
          => (/\ prev'.resp \in 400..599
              /\ prev'.session = NoSession
              /\ orders' = orders
              /\ \/ users' = users /\ customers' = customers
                 \/ /\ prev'.fault = "session"
                    /\ customers' = customers + 1
                    /\ \E uid \in 1..Len(users) :
                          /\ users[uid].cust = NoRef
                          /\ users' = [users EXCEPT ![uid].cust = customers']) ]_vars

\* the session creation failed after a customer had been created and stored
C19_Witness ==
    /\ prev.op = "checkout" /\ prev.fault = "session" /\ prev.resp = 500
    /\ customers >= 1
    /\ \E i \in 1..Len(users) : users[i].cust = customers

\* C20: a checkout session is opened with the id of the authenticated user
\* who initiated it in its metadata, and a completed-checkout (recurring)
\* event changes the record of the user its metadata names only: no other
\* User's record changes, whatever the e-mail addresses and customer
\* references are.  (A request answered 200 is one in which no call failed.)
C20_ScopedToOwner ==
    [][ /\ (prev'.op = "checkout" /\ prev'.resp = 200)
            => \A uid \in 1..Len(users), cart \in Carts :
                 create_checkout_session_api(uid, cart, "none")
                   => (/\ prev'.session.user_id = uid
                       /\ \A i \in Others(users, uid) : users'[i] = users[i])
        /\ (WebhookDelivered /\ Recurring(prev'.ev))
            => (/\ Len(users') = Len(users)
                /\ \A i \in Others(users, prev'.ev.user_id) : users'[i] = users[i]) ]_vars

\* the event of the second user's session was applied while the first user
\* held a customer reference and another subscription state
C20_Witness ==
    /\ prev.op = "webhook" /\ Recurring(prev.ev) /\ prev.resp = 200
    /\ Len(users) = 2 /\ prev.ev.user_id = 2
    /\ users[2].sub = prev.ev.subscription /\ users[2].status = "active"
    /\ users[2].cust # NoRef /\ users[1].cust # NoRef
    /\ users[1].sub # users[2].sub

\* C21: when a checkout session is opened in payment mode, an Order with
\* status pending and the initiating user's id exists afterwards for it; the
\* session being new, so is the row that carries its reference.
C21_PaymentSessionHasOrder ==
    [][ (prev'.op = "checkout" /\ prev'.resp = 200 /\ prev'.session.mode = "payment")
          => \E i \in 1..Len(orders') :
                /\ i > Len(orders)
                /\ orders'[i].status = "pending"
                /\ orders'[i].user_id = prev'.session.user_id ]_vars

\* the webhook's handling of a completed one-time purchase
OrderCompletion == WebhookDelivered /\ OneTime(prev'.ev)

\* C22: an existing Order is never deleted, and its status is changed by
\* nothing but the webhook's completed-checkout (one-time purchase) handling:
\* registration, login, profile update, checkout initiation, invoice-paid and
\* recurring completed-checkout leave every Order as it is.
C22_OrdersOnlyByCompletion ==
    [][ /\ Len(orders') >= Len(orders)
        /\ \A i \in 1..Len(orders) :
              /\ orders'[i].user_id = orders[i].user_id
              /\ orders'[i].session = orders[i].session
              /\ orders'[i].status # orders[i].status => OrderCompletion ]_vars

\* an invoice-paid event was handled while a pending order was in the store
C22_Witness ==
    /\ prev.op = "webhook" /\ InvoicePaid(prev.ev) /\ prev.fault = "none"
    /\ prev.ev.subscription # NoRef
    /\ \E i \in 1..Len(orders) : orders[i].status = "pending" /\ orders[i].session = 1

\* C23: per user the subscription status is null or active in every state,
\* it becomes active only by a completed-checkout (recurring) delivery, and
\* once active it stays active under every later request.
C23_StatusTransitions ==
    [][ \A i \in 1..Len(users) :
          /\ users[i].status \in {Null, "active"}
          /\ users'[i].status \in {Null, "active"}
          /\ users[i].status = "active" => users'[i].status = "active"
          /\ users'[i].status # users[i].status
                => (WebhookDelivered /\ Recurring(prev'.ev) /\ prev'.ev.user_id = i) ]_vars

\* a later completed-checkout delivery for an active user failed
C23_Witness ==
    /\ prev.op = "webhook" /\ Recurring(prev.ev) /\ prev.resp = 500
    /\ prev.ev.user_id \in 1..Len(users)
    /\ users[prev.ev.user_id].status = "active"
    /\ users[prev.ev.user_id].sub # prev.ev.subscription

\* the subscription columns of a users row, and the columns other requests write
SubscriptionFields(u) == <<u.plan, u.status, u.sub>>
OwnFields(u) == <<u.username, u.email, u.full_name, u.cust>>

\* the users row after a single delivery of the recurring event e
SingleDelivery(e) ==
    <<plan_name(price_cfg, SubPrice(e.subscription)), "active", e.subscription>>

\* C24: two deliveries of the same completed-checkout event handled
\* concurrently, interleaved with each other and with the user's checkout
\* initiation and profile update, end with plan, status and subscription
\* reference of a single delivery at the step in which the later of the two
\* is answered; no step of a delivery changes the customer reference or the
\* profile fields, and no step of another request changes the subscription
\* columns.
C24_ConcurrentDeliveries ==
    [][ /\ Len(users') = Len(users)
        /\ wh' # wh => \A i \in 1..Len(users) : OwnFields(users'[i]) = OwnFields(users[i])
        /\ wh' = wh => \A i \in 1..Len(users) :
                          SubscriptionFields(users'[i]) = SubscriptionFields(users[i])
        /\ \A w1, w2 \in ConcSlots :
              (/\ w1 # w2
               /\ wh[w2].pc = "write"
               /\ wh'[w1].pc = "done" /\ wh'[w1].resp = 200
               /\ wh'[w2].pc = "done" /\ wh'[w2].resp = 200
               /\ wh'[w1].ev = wh'[w2].ev
               /\ Recurring(wh'[w1].ev)
               /\ wh'[w1].ev.user_id \in 1..Len(users))
                => SubscriptionFields(users'[wh'[w1].ev.user_id]) = SingleDelivery(wh'[w1].ev) ]_vars

\* both deliveries of one event were applied to a user whose customer
\* reference and e-mail address were written by other requests
C24_Witness ==
    /\ wh[1].pc = "done" /\ wh[1].resp = 200 /\ wh[2].pc = "done" /\ wh[2].resp = 200
    /\ wh[1].ev = wh[2].ev /\ Recurring(wh[1].ev) /\ wh[1].ev.user_id = 1
    /\ SubscriptionFields(users[1]) = SingleDelivery(wh[1].ev)
    /\ users[1].cust # NoRef /\ users[1].email # AdminUser.email

\* the internal errors of a delivery: the processor's lookup or the store fails
InternalErrors == {"processor", "store"}

\* the delivery just handled repeats the one that failed right before it
Retry ==
    /\ WebhookDelivered /\ prev'.fault = "none"
    /\ prev.op = "webhook" /\ prev.ev = prev'.ev
    /\ prev.fault \in InternalErrors /\ prev.resp = 500

\* C25: when handling an authentic event fails on an internal error, the
\* endpoint answers with a failure and the attempt has changed no User and no
\* Order; the retry of a completed-checkout delivery then ends in the state
\* of a single successful delivery.
C25_FailureIsRetryable ==
    [][ /\ (WebhookDelivered /\ prev'.fault \in InternalErrors)
            => (prev'.resp \in 500..599 /\ users' = users /\ orders' = orders)
        /\ (/\ Retry /\ Recurring(prev'.ev)
            /\ prev'.ev.user_id \in 1..Len(users)
            /\ \A i \in Others(users, prev'.ev.user_id) : users[i].sub # prev'.ev.subscription)
            => (/\ prev'.resp = 200
                /\ SubscriptionFields(users'[prev'.ev.user_id]) = SingleDelivery(prev'.ev)
                /\ OwnFields(users'[prev'.ev.user_id]) = OwnFields(users[prev'.ev.user_id])
                /\ \A i \in Others(users, prev'.ev.user_id) : users'[i] = users[i]
                /\ orders' = orders)
        /\ (Retry /\ OneTime(prev'.ev))
            => (/\ prev'.resp = 200
                /\ users' = users
                /\ orders' = CompleteOrders(orders, prev'.ev.id)) ]_vars

\* the store failed under a delivery for a user who holds another subscription
C25_Witness ==
    /\ prev.op = "webhook" /\ prev.fault = "store" /\ prev.resp = 500
    /\ Recurring(prev.ev) /\ prev.ev.user_id \in 1..Len(users)
    /\ users[prev.ev.user_id].status = "active"
    /\ users[prev.ev.user_id].sub # prev.ev.subscription
    /\ \E i \in 1..Len(orders) : orders[i].status = "pending"

\* C26: registration creates the User with plan none, null status and null
\* customer and subscription references; afterwards plan, status and
\* subscription reference change under webhook handling only, not under the
\* registration of other users, login, profile update or checkout initiation.
C26_SubscriptionOnlyByWebhook ==
    [][ /\ (prev'.op = "register" /\ prev'.resp = 201)
            => (/\ Len(users') = Len(users) + 1
                /\ users'[Len(users')].plan = "none"
                /\ users'[Len(users')].status = Null
                /\ users'[Len(users')].cust = NoRef
                /\ users'[Len(users')].sub = NoRef)
        /\ \A i \in 1..Len(users) :
              SubscriptionFields(users'[i]) # SubscriptionFields(users[i])
                => WebhookDelivered ]_vars

\* a user registered after another user had been given a plan and a
\* customer reference
C26_Witness ==
    /\ prev.op = "register" /\ prev.resp = 201 /\ Len(users) = 2
    /\ users[2].plan = "none" /\ users[2].sub = NoRef
    /\ users[1].plan # "none" /\ users[1].cust # NoRef

\* the paid tiers
PaidTiers == {"basic", "premium", "ultimate"}

\* C27: under every configuration of the tier price identifiers, a
\* completed-checkout (recurring) event whose subscription is priced at the
\* identifier configured for tier t sets the user's plan to t.
C27_PriceMapsToTier ==
    [][ (/\ WebhookDelivered /\ prev'.fault = "none" /\ Recurring(prev'.ev)
         /\ prev'.ev.user_id \in 1..Len(users)
         /\ \A i \in Others(users, prev'.ev.user_id) : users[i].sub # prev'.ev.subscription)
          => \A t \in PaidTiers :
                SubPrice(prev'.ev.subscription) = price_cfg[t]
                  => users'[prev'.ev.user_id].plan = t ]_vars

\* C28: a checkout session is opened in subscription mode exactly when the
\* price of the first line item is recurring, and in payment mode otherwise,
\* whatever the remaining line items are.  (A request answered 200 is one in
\* which no call failed.)
C28_ModeFromFirstItem ==
    [][ (prev'.op = "checkout" /\ prev'.resp = 200)
          => \A uid \in 1..Len(users), cart \in Carts :
               create_checkout_session_api(uid, cart, "none")
                 => (/\ prev'.session.mode \in {"subscription", "payment"}
                     /\ prev'.session.mode = "subscription" <=> Head(cart) = "recurring") ]_vars

\* a session was opened in payment mode for a user who had no customer yet
C28_Witness ==
    /\ prev.op = "checkout" /\ prev.resp = 200 /\ prev.session.mode = "payment"
    /\ prev.session.user_id \in 1..Len(users)
    /\ prev.session.customer = customers
    /\ users[prev.session.user_id].cust = prev.session.customer

\* C29: in every reachable state the subscription fields of a User agree:
\* the plan is other than none exactly when the status is active, and exactly
\* when the subscription reference is set.
C29_SubscriptionFieldsAgree ==
    \A i \in 1..Len(users) :
        /\ users[i].plan # "none" <=> users[i].status = "active"
        /\ users[i].plan # "none" <=> users[i].sub # NoRef

\* a subscriber of a paid tier beside a user who only holds a customer
\* reference
C29_Witness ==
    \E i, j \in 1..Len(users) :
        /\ users[i].plan \in PaidTiers /\ users[i].status = "active" /\ users[i].sub # NoRef
        /\ users[j].plan = "none" /\ users[j].status = Null /\ users[j].sub = NoRef
        /\ users[j].cust # NoRef

\* two successive authentic deliveries, both handled without internal error
Successive == WebhookDelivered /\ prev'.fault = "none" /\ prev.op = "webhook" /\ prev.fault = "none"

\* C30: the completed-checkout (recurring) event and the invoice-paid event
\* of one subscription commute: invoice-paid first (no user owns the
\* reference yet) and completed-checkout second ends in the User state of the
\* logical order, which is that of the completed-checkout alone, and both
\* deliveries are answered with success.
C30_CheckoutInvoiceCommute ==
    [][ (/\ Successive
         /\ InvoicePaid(prev.ev) /\ Recurring(prev'.ev)
         /\ prev.ev.subscription = prev'.ev.subscription
         /\ prev'.ev.user_id \in 1..Len(users)
         /\ \A i \in 1..Len(users) : users[i].sub # prev'.ev.subscription)
          => (/\ prev.resp = 200 /\ prev'.resp = 200
              /\ SubscriptionFields(users'[prev'.ev.user_id]) = SingleDelivery(prev'.ev)) ]_vars
====
